---------------------------- MODULE Spec2Model ----------------------------
(* A model of pyedhrec: the EDHRec client (src/src/edhrec/pyedhrec.py) and  *)
(* its time-expiring memoizer (src/src/edhrec/caching.py).                  *)
(*                                                                          *)
(* Python strings are sequences of one-character strings, so that           *)
(* lower(), replace(), concatenation and suffix tests are computed and not  *)
(* assumed.  None and the exceptions are the values defined below.          *)
EXTENDS Integers, Sequences, FiniteSets, TLC

VARIABLES
    card_name,      \* format_card_name: the string given to the first call
    formatted,      \* format_card_name: the result of the first call
    reformatted,    \* format_card_name: the result of the call on that result
    pass,           \* format_card_name: number of calls made so far
    current_build_id,   \* per client instance: self.current_build_id
    root_requests,      \* per client instance: GETs of the service root issued
    resolved,           \* per client instance: a check_build_id call has returned
    last,               \* the last call made on a client: operation, arguments, outcome
    caches,             \* per cached operation: the dict its decorator created
    clock,              \* datetime.utcnow(), in seconds
    ticks,              \* number of times the clock has advanced
    ncalls,             \* number of calls made to cached operations
    gen,                \* a top-commanders generator: its arguments, locals and position
    threads,            \* per thread calling a cached operation: its position and locals
    trace               \* the membership checks, underlying calls and entry writes so far

nameVars == <<card_name, formatted, reformatted, pass>>

clientVars == <<current_build_id, root_requests, resolved, last>>

cacheVars == <<caches, clock, ticks, ncalls, threads, trace>>

vars == <<card_name, formatted, reformatted, pass,
          current_build_id, root_requests, resolved, last,
          caches, clock, ticks, ncalls, gen, threads, trace>>

-----------------------------------------------------------------------------
(* Strings *)

UpperCase == <<"A","B","C","D","E","F","G","H","I","J","K","L","M",
               "N","O","P","Q","R","S","T","U","V","W","X","Y","Z">>

LowerCase == <<"a","b","c","d","e","f","g","h","i","j","k","l","m",
               "n","o","p","q","r","s","t","u","v","w","x","y","z">>

Range(s) == { s[i] : i \in DOMAIN s }

IsUpper(c) == c \in Range(UpperCase)

\* str.lower() on one character
LowerChar(c) ==
    IF IsUpper(c)
    THEN LowerCase[CHOOSE i \in DOMAIN UpperCase : UpperCase[i] = c]
    ELSE c

\* str.lower()
Lower(s) == [i \in DOMAIN s |-> LowerChar(s[i])]

\* str.replace(old, new) for a one-character old; new is a string (maybe empty)
RECURSIVE Replace(_, _, _)
Replace(s, old, new) ==
    IF s = <<>> THEN <<>>
    ELSE (IF Head(s) = old THEN new ELSE <<Head(s)>>) \o Replace(Tail(s), old, new)

\* str.endswith
EndsWith(s, suffix) ==
    /\ Len(suffix) <= Len(s)
    /\ SubSeq(s, Len(s) - Len(suffix) + 1, Len(s)) = suffix

-----------------------------------------------------------------------------
(* Values shared by the client's operations *)

\* Python's None, where a string is expected: no string has this element
None == <<"None">>

\* Exceptions that leave an operation
NoExc == <<"no exception">>
HTTPError == <<"HTTPError">>
AttributeError == <<"AttributeError">>
TypeError == <<"TypeError">>
KeyError == <<"KeyError">>
AssertionError == <<"AssertionError">>
IndexError == <<"IndexError">>

\* bool(x) of a string or None
Truthy(x) == x # None /\ x # <<>>

\* d[k] = v on a dict
SetItem(d, k, v) == [x \in DOMAIN d \cup {k} |-> IF x = k THEN v ELSE d[x]]

Instances == {"A", "B"}

NoCall == [op |-> "none"]

\* EDHRec.__init__, with no call made yet
ClientIdle ==
    /\ current_build_id = [i \in Instances |-> None]
    /\ root_requests = [i \in Instances |-> 0]
    /\ resolved = [i \in Instances |-> FALSE]
    /\ last = NoCall
    /\ gen = [pc |-> "none"]

\* The threads that call a cached operation concurrently
Threads == {"t1", "t2"}

\* A thread that is not inside wrapper
IdleThread == [pc |-> "idle", n |-> 0, now |-> 0, result |-> None,
               ret |-> None, exc |-> NoExc]

CachedOps == {"get_card_details", "get_card_combos", "get_commander_data",
              "get_commanders_average_deck", "get_commander_decks"}

\* No call made to a cached operation yet, at time 0
CacheIdle ==
    /\ caches = [op \in CachedOps |-> <<>>]
    /\ clock = 0
    /\ ticks = 0
    /\ ncalls = 0
    /\ threads = [t \in Threads |-> IdleThread]
    /\ trace = <<>>

-----------------------------------------------------------------------------
(* EDHRec.format_card_name *)

format_card_name_keeps_case(name) ==
    Replace(Replace(Replace(name, " ", <<"-">>), "'", <<>>), ",", <<>>)

format_card_name(name) ==
    Replace(Replace(Replace(Lower(name), " ", <<"-">>), "'", <<>>), ",", <<>>)

MaxNameLen == 3

NameAlphabet == {"A", "a", "Z", " ", "'", ",", "-", "."}

Miirym == <<"M","i","i","r","y","m",","," ","S","e","n","t","i","n","e","l",
            " ","W","y","r","m">>

MiirymSlug == <<"m","i","i","r","y","m","-","s","e","n","t","i","n","e","l",
                "-","w","y","r","m">>

NameInputs ==
    UNION { [1..k -> NameAlphabet] : k \in 0..MaxNameLen } \cup {Miirym}

NameIdle ==
    /\ card_name = <<>>
    /\ formatted = <<>>
    /\ reformatted = <<>>
    /\ pass = 0

NameInit ==
    /\ card_name \in NameInputs
    /\ formatted = <<>>
    /\ reformatted = <<>>
    /\ pass = 0
    /\ ClientIdle
    /\ CacheIdle

\* format_card_name(card_name)
FormatCardName ==
    /\ pass = 0
    /\ formatted' = format_card_name(card_name)
    /\ pass' = 1
    /\ UNCHANGED <<card_name, reformatted>>
    /\ UNCHANGED <<clientVars, cacheVars, gen>>

\* format_card_name applied to its own result
FormatCardNameAgain ==
    /\ pass = 1
    /\ reformatted' = format_card_name(formatted)
    /\ pass' = 2
    /\ UNCHANGED <<card_name, formatted>>
    /\ UNCHANGED <<clientVars, cacheVars, gen>>

NameNext == FormatCardName \/ FormatCardNameAgain

SpecName == NameInit /\ [][NameNext]_vars

\* The characters of s that are neither apostrophe nor comma, in order, each
\* lower-cased and each space turned into a hyphen.
RECURSIVE KeptInPlace(_)
KeptInPlace(s) ==
    IF s = <<>> THEN <<>>
    ELSE LET c == Head(s) IN
         (IF c \in {"'", ","} THEN <<>>
          ELSE IF c = " " THEN <<"-">>
          ELSE <<LowerChar(c)>>) \o KeptInPlace(Tail(s))

-----------------------------------------------------------------------------
(* EDHRec.get_build_id, EDHRec.check_build_id, EDHRec._build_nextjs_uri *)

base_url == <<"h","t","t","p","s",":","/","/","e","d","h","r","e","c",".","c","o","m">>

default_build_id == <<"m","I","7","k","8","I","Z","2","3","x","7","4","L","o","c","K","_","h","-","q","e">>

NextData == <<"/","_","n","e","x","t","/","d","a","t","a","/">>

BUDGET == <<"b","u","d","g","e","t">>

EXPENSIVE == <<"e","x","p","e","n","s","i","v","e">>

CHEAP == <<"c","h","e","a","p">>

COMBOS == <<"c","o","m","b","o","s">>

COMMANDERS == <<"c","o","m","m","a","n","d","e","r","s">>

DotJson == <<".","j","s","o","n">>

SlashBudgetJson == <<"/","b","u","d","g","e","t",".","j","s","o","n">>

SlashExpensiveJson == <<"/","e","x","p","e","n","s","i","v","e",".","j","s","o","n">>

Krark == <<"K","r","a","r","k","'","s"," ","T","h","u","m","b">>

Dragons == <<"d","r","a","g","o","n","s">>

B1 == <<"b","l","d","-","1">>

B2 == <<"b","l","d","-","2">>

\* What the service may answer to the GET of its root: the HTTP status, whether
\* the page holds the __NEXT_DATA__ script block, what json.loads makes of the
\* block's content, and the buildId member of the decoded object (None when
\* the object has none).
Pages ==
    { [status |-> st, script |-> FALSE, json |-> "object", buildId |-> None]
        : st \in {200, 404} }
    \cup
    { [status |-> 200, script |-> TRUE, json |-> j, buildId |-> None]
        : j \in {"malformed", "array", "object"} }
    \cup
    { [status |-> 200, script |-> TRUE, json |-> "object", buildId |-> b]
        : b \in {<<>>, B1, B2} }

\* Response.raise_for_status
raise_for_status(status) == IF status >= 400 THEN HTTPError ELSE NoExc

\* EDHRec.get_build_id: the buildId, None, or the exception raised
get_build_id(page) ==
    IF raise_for_status(page.status) # NoExc THEN HTTPError
    ELSE IF ~page.script THEN None
    ELSE IF page.json = "malformed" THEN None
    ELSE IF page.json = "object" THEN page.buildId
    ELSE AttributeError

IsExc(x) == x \in {HTTPError, AttributeError, TypeError, KeyError, AssertionError, IndexError}

\* check_build_id resolving on every call
check_build_id_always_resolves(cur, page) ==
    LET r == get_build_id(page) IN
    IF IsExc(r)
    THEN [exc |-> r, build_id |-> cur, fetched |-> 1]
    ELSE [exc |-> NoExc,
          build_id |-> IF Truthy(r) THEN r ELSE default_build_id,
          fetched |-> 1]

\* EDHRec.check_build_id on an instance whose current_build_id is cur, the root
\* answering page if asked: the exception that leaves the call (or NoExc), the
\* new current_build_id, and the number of root requests issued.
check_build_id(cur, page) ==
    IF ~Truthy(cur)
    THEN LET r == get_build_id(page) IN
         IF IsExc(r)
         THEN [exc |-> r, build_id |-> cur, fetched |-> 1]
         ELSE [exc |-> NoExc,
               build_id |-> IF Truthy(r) THEN r ELSE default_build_id,
               fetched |-> 1]
    ELSE [exc |-> NoExc, build_id |-> cur, fetched |-> 0]

\* _build_nextjs_uri where the theme is written to themeName after the budget
build_uri_theme_wins(build_id, endpoint, name, slug, theme, budget) ==
    LET f  == format_card_name(name)
        u0 == base_url \o NextData \o build_id \o <<"/">> \o endpoint \o <<"/">> \o f
        u1 == IF Truthy(theme) THEN u0 \o <<"/">> \o theme ELSE u0
        q0 == [commanderName |-> f]
        q1 == IF budget \in {BUDGET, EXPENSIVE}
              THEN SetItem(q0, "themeName", budget) ELSE q0
        q2 == IF Truthy(theme) THEN SetItem(q1, "themeName", theme) ELSE q1
        u2 == IF budget = BUDGET THEN u1 \o SlashBudgetJson
              ELSE IF budget = EXPENSIVE THEN u1 \o SlashExpensiveJson
              ELSE u1 \o DotJson
        q3 == IF Truthy(slug) THEN SetItem(q2, "slug", slug) ELSE q2
        q4 == IF endpoint = COMBOS THEN SetItem(q3, "colors", f) ELSE q3
    IN  [uri |-> u2, params |-> q4]

\* EDHRec._build_nextjs_uri after check_build_id has returned: (uri, params)
build_uri(build_id, endpoint, name, slug, theme, budget) ==
    LET f  == format_card_name(name)
        u0 == base_url \o NextData \o build_id \o <<"/">> \o endpoint \o <<"/">> \o f
        u1 == IF Truthy(theme) THEN u0 \o <<"/">> \o theme ELSE u0
        q0 == [commanderName |-> f]
        q1 == IF Truthy(theme) /\ ~Truthy(budget)
              THEN SetItem(q0, "themeName", theme) ELSE q0
        u2 == IF budget = BUDGET THEN u1 \o SlashBudgetJson
              ELSE IF budget = EXPENSIVE THEN u1 \o SlashExpensiveJson
              ELSE u1 \o DotJson
        q2 == IF budget \in {BUDGET, EXPENSIVE}
              THEN SetItem(q1, "themeName", budget) ELSE q1
        q3 == IF Truthy(slug) THEN SetItem(q2, "slug", slug) ELSE q2
        q4 == IF endpoint = COMBOS THEN SetItem(q3, "colors", f) ELSE q3
    IN  [uri |-> u2, params |-> q4]

MaxRootRequests == 2

BuildInstances == {"A"}

UriInputs ==
    [endpoint : {COMMANDERS, COMBOS},
     card_name : {Krark},
     slug : {None, <<"s">>},
     theme : {None, <<>>, Dragons},
     budget : {None, <<>>, BUDGET, EXPENSIVE, CHEAP}]

\* The answers the root can give to the request check_build_id issues; when
\* the instance holds a build id no request is issued and no answer is read.
RootAnswersIn(pages, inst) ==
    IF Truthy(current_build_id[inst]) THEN {CHOOSE p \in pages : TRUE} ELSE pages

RootAnswers(inst) == RootAnswersIn(Pages, inst)

\* The instance's fields after a check_build_id whose outcome is c
AfterCheck(inst, c) ==
    /\ current_build_id' = [current_build_id EXCEPT ![inst] = c.build_id]
    /\ root_requests' = [root_requests EXCEPT ![inst] = @ + c.fetched]
    /\ resolved' = [resolved EXCEPT ![inst] = @ \/ c.exc = NoExc]

\* inst.check_build_id()
CheckBuildId(inst) ==
    \E page \in RootAnswers(inst) :
        LET c == check_build_id(current_build_id[inst], page) IN
        /\ root_requests[inst] < MaxRootRequests
        /\ AfterCheck(inst, c)
        /\ last' = [op |-> "check_build_id", inst |-> inst, exc |-> c.exc,
                    fetched |-> c.fetched]
        /\ UNCHANGED <<nameVars, cacheVars, gen>>

\* inst._build_nextjs_uri(endpoint, card_name, slug, theme, budget)
BuildNextjsUri(inst) ==
    \E page \in RootAnswers(inst), a \in UriInputs :
        LET c == check_build_id(current_build_id[inst], page) IN
        /\ root_requests[inst] < MaxRootRequests
        /\ AfterCheck(inst, c)
        /\ last' = [op |-> "_build_nextjs_uri", inst |-> inst, args |-> a,
                    exc |-> c.exc, fetched |-> c.fetched,
                    ret |-> IF c.exc = NoExc
                            THEN build_uri(c.build_id, a.endpoint, a.card_name,
                                           a.slug, a.theme, a.budget)
                            ELSE None]
        /\ UNCHANGED <<nameVars, cacheVars, gen>>

BuildNext ==
    \E inst \in BuildInstances : CheckBuildId(inst) \/ BuildNextjsUri(inst)

BuildInit == NameIdle /\ ClientIdle /\ CacheIdle

SpecBuild == BuildInit /\ [][BuildNext]_vars

Returned(op) == last.op = op /\ last.exc = NoExc

\* C2: check_build_id never raises, whatever the root request's outcome, and
\* leaves current_build_id set to a non-empty token.
C2_CheckBuildIdNeverRaises ==
    last.op = "check_build_id" =>
        /\ last.exc = NoExc
        /\ Truthy(current_build_id[last.inst])

\* C3: once a check_build_id call has returned on an instance, its
\* current_build_id never changes and no later call requests the service
\* root; every URI the instance synthesizes carries that build id.
C3_ResolvedOnce ==
    /\ [][\A inst \in Instances : resolved[inst] =>
            /\ current_build_id'[inst] = current_build_id[inst]
            /\ root_requests'[inst] = root_requests[inst]]_vars
    /\ [](Returned("_build_nextjs_uri") =>
            LET p == base_url \o NextData \o current_build_id[last.inst] \o <<"/">>
            IN  /\ Truthy(current_build_id[last.inst])
                /\ Len(last.ret.uri) >= Len(p)
                /\ SubSeq(last.ret.uri, 1, Len(p)) = p)

C3_Witness ==
    /\ Returned("_build_nextjs_uri")
    /\ last.fetched = 0
    /\ root_requests["A"] = 1
    /\ current_build_id["A"] = default_build_id

\* C4: with budget "budget" or "expensive" themeName is the budget and the URI
\* ends with /budget.json or /expensive.json; with no budget and a theme,
\* themeName is the theme and the URI ends with /{theme}.json; the same inputs
\* give the same (uri, params).
C4_BudgetOverridesTheme ==
    /\ [](Returned("_build_nextjs_uri") =>
            LET a == last.args
                r == last.ret
            IN  /\ a.budget \in {BUDGET, EXPENSIVE} =>
                    /\ "themeName" \in DOMAIN r.params
                    /\ r.params["themeName"] = a.budget
                    /\ EndsWith(r.uri, <<"/">> \o a.budget \o DotJson)
                /\ (~Truthy(a.budget) /\ Truthy(a.theme)) =>
                    /\ "themeName" \in DOMAIN r.params
                    /\ r.params["themeName"] = a.theme
                    /\ EndsWith(r.uri, <<"/">> \o a.theme \o DotJson))
    /\ [][(/\ Returned("_build_nextjs_uri")
           /\ Returned("_build_nextjs_uri")'
           /\ last'.inst = last.inst
           /\ last'.args = last.args) => last'.ret = last.ret]_vars

C4_Witness ==
    /\ Returned("_build_nextjs_uri")
    /\ last.args.budget = BUDGET
    /\ last.args.theme = Dragons
    /\ last.ret.params["themeName"] = BUDGET
    /\ EndsWith(last.ret.uri, Dragons \o SlashBudgetJson)

-----------------------------------------------------------------------------
(* Decoded JSON values, and the Python operations the client applies to them *)

JNone == [t |-> "None"]

JDict(f) == [t |-> "dict", kv |-> f]

JList(items) == [t |-> "list", items |-> items]

JStr(str) == [t |-> "str", s |-> str]

JNum(n) == [t |-> "num", n |-> n]

\* An exception raised while a value was being computed
Raise(e) == [t |-> "raise", exc |-> e]

EmptyDict == JDict(<<>>)

\* d.get(k, default)
DictGet(d, k, default) ==
    IF d.t = "raise" THEN d
    ELSE IF d.t # "dict" THEN Raise(AttributeError)
    ELSE IF k \in DOMAIN d.kv THEN d.kv[k]
    ELSE default

\* d[k] with a string k
Subscript(d, k) ==
    IF d.t = "raise" THEN d
    ELSE IF d.t # "dict" THEN Raise(TypeError)
    ELSE IF k \in DOMAIN d.kv THEN d.kv[k]
    ELSE Raise(KeyError)

\* l[i] with an integer i >= 0
Item(l, i) ==
    IF l.t = "raise" THEN l
    ELSE IF l.t = "dict" THEN Raise(KeyError)
    ELSE IF l.t # "list" THEN Raise(TypeError)
    ELSE IF i + 1 \in DOMAIN l.items THEN l.items[i + 1]
    ELSE Raise(IndexError)

\* _get_nextjs_data looking up "data" in the response itself
get_nextjs_data_flat(response) ==
    IF response.t = "dict"
    THEN IF "pageProps" \in DOMAIN response.kv
         THEN DictGet(response, "data", JNone)
         ELSE JNone
    ELSE IF response.t = "list"
    THEN IF JStr("pageProps") \in Range(response.items)
         THEN Raise(AttributeError)
         ELSE JNone
    ELSE Raise(TypeError)

\* EDHRec._get_nextjs_data
get_nextjs_data(response) ==
    IF response.t = "dict"
    THEN IF "pageProps" \in DOMAIN response.kv
         THEN DictGet(DictGet(response, "pageProps", EmptyDict), "data", JNone)
         ELSE JNone
    ELSE IF response.t = "list"
    THEN IF JStr("pageProps") \in Range(response.items)
         THEN Raise(AttributeError)
         ELSE JNone
    ELSE Raise(TypeError)

\* EDHRec._get with return_type "json", the service answering ans
get_json(ans) ==
    IF raise_for_status(ans.status) # NoExc THEN Raise(HTTPError) ELSE ans.body

-----------------------------------------------------------------------------
(* caching.py: generate_wrapped_func and the five cache decorators, and the *)
(* five cached operations of EDHRec                                         *)

TTL == 86400

AVERAGE_DECKS == <<"a","v","e","r","a","g","e","-","d","e","c","k","s">>

DECKS == <<"d","e","c","k","s">>

\* One dict for all the decorated operations
cache_of_shared(op) == "get_card_details"

\* The dict an operation's wrapper holds: each decorator call creates its own
cache_of(op) == op

\* The key of a call: the tuple of positional arguments, self first
key_of(inst, a) == <<inst>> \o a

\* wrapper recomputing only strictly after the expiry
wrapper_late(cache, args, now, f) ==
    IF args \in DOMAIN cache
    THEN IF now > cache[args].expiry
         THEN IF f.exc # NoExc
              THEN [cache |-> cache, exc |-> f.exc, ret |-> JNone, invoked |-> 1]
              ELSE LET c2 == SetItem(cache, args,
                                     [result |-> f.ret, expiry |-> now + TTL])
                   IN  [cache |-> c2, exc |-> NoExc, ret |-> c2[args].result,
                        invoked |-> 1]
         ELSE [cache |-> cache, exc |-> NoExc, ret |-> cache[args].result,
               invoked |-> 0]
    ELSE IF f.exc # NoExc
         THEN [cache |-> cache, exc |-> f.exc, ret |-> JNone, invoked |-> 1]
         ELSE [cache |-> SetItem(cache, args,
                                 [result |-> f.ret, expiry |-> now + TTL]),
               exc |-> NoExc, ret |-> f.ret, invoked |-> 1]

\* wrapper answering a failed recomputation with the entry it holds
wrapper_stale_on_error(cache, args, now, f) ==
    IF args \in DOMAIN cache
    THEN IF now >= cache[args].expiry /\ f.exc = NoExc
         THEN LET c2 == SetItem(cache, args,
                                [result |-> f.ret, expiry |-> now + TTL])
              IN  [cache |-> c2, exc |-> NoExc, ret |-> c2[args].result,
                   invoked |-> 1]
         ELSE [cache |-> cache, exc |-> NoExc, ret |-> cache[args].result,
               invoked |-> IF now >= cache[args].expiry THEN 1 ELSE 0]
    ELSE IF f.exc # NoExc
         THEN [cache |-> cache, exc |-> f.exc, ret |-> JNone, invoked |-> 1]
         ELSE [cache |-> SetItem(cache, args,
                                 [result |-> f.ret, expiry |-> now + TTL]),
               exc |-> NoExc, ret |-> f.ret, invoked |-> 1]

\* generate_wrapped_func.wrapper called with args at time now on the dict
\* cache; f is the outcome of func(*args) should the wrapper invoke it.  The
\* dict afterwards, the exception or the value returned, and the number of
\* times func was invoked.
wrapper(cache, args, now, f) ==
    IF args \in DOMAIN cache
    THEN IF now >= cache[args].expiry
         THEN IF f.exc # NoExc
              THEN [cache |-> cache, exc |-> f.exc, ret |-> JNone, invoked |-> 1]
              ELSE LET c2 == SetItem(cache, args,
                                     [result |-> f.ret, expiry |-> now + TTL])
                   IN  [cache |-> c2, exc |-> NoExc, ret |-> c2[args].result,
                        invoked |-> 1]
         ELSE [cache |-> cache, exc |-> NoExc, ret |-> cache[args].result,
               invoked |-> 0]
    ELSE IF f.exc # NoExc
         THEN [cache |-> cache, exc |-> f.exc, ret |-> JNone, invoked |-> 1]
         ELSE [cache |-> SetItem(cache, args,
                                 [result |-> f.ret, expiry |-> now + TTL]),
               exc |-> NoExc, ret |-> f.ret, invoked |-> 1]

\* The outcome of a function body: what check_build_id did (c), and the value
\* returned or the exception raised
Outcome(c, v) ==
    [check |-> c,
     exc |-> IF v.t = "raise" THEN v.exc ELSE NoExc,
     ret |-> IF v.t = "raise" THEN JNone ELSE v]

\* check_build_id not called
NoCheck(cur) == [exc |-> NoExc, build_id |-> cur, fetched |-> 0]

\* EDHRec.get_card_details (the decorated function).  The URI requested is a
\* function of the card name; ans is what the service answers to it.
get_card_details(cur, a, page, ans) == Outcome(NoCheck(cur), get_json(ans))

\* _build_nextjs_uri, _get and _get_nextjs_data in turn, as get_card_combos,
\* get_commander_data and get_commander_decks do.  The URI requested is
\* build_uri of the endpoint, name and budget; ans is what the service
\* answers to it.
nextjs_fetch(cur, endpoint, name, budget, page, ans) ==
    LET c == check_build_id(cur, page) IN
    IF c.exc # NoExc THEN Outcome(c, Raise(c.exc))
    ELSE LET res == get_json(ans) IN
         Outcome(c, IF res.t = "raise" THEN res ELSE get_nextjs_data(res))

\* The budget argument of a call: the second positional argument or the default
BudgetOf(a) == IF Len(a) >= 2 THEN a[2] ELSE None

\* EDHRec.get_card_combos (the decorated function)
get_card_combos(cur, a, page, ans) ==
    nextjs_fetch(cur, COMBOS, a[1], None, page, ans)

\* EDHRec.get_commander_data (the decorated function)
get_commander_data(cur, a, page, ans) ==
    nextjs_fetch(cur, COMMANDERS, a[1], None, page, ans)

\* EDHRec.get_commanders_average_deck (the decorated function)
get_commanders_average_deck(cur, a, page, ans) ==
    LET o == nextjs_fetch(cur, AVERAGE_DECKS, a[1], BudgetOf(a), page, ans) IN
    IF o.exc # NoExc THEN o
    ELSE LET deck == DictGet(o.ret, "deck", JNone) IN
         Outcome(o.check,
                 IF deck.t = "raise" THEN deck
                 ELSE JDict([commander |-> JStr(a[1]), decklist |-> deck]))

\* EDHRec.get_commander_decks (the decorated function)
get_commander_decks(cur, a, page, ans) ==
    nextjs_fetch(cur, DECKS, a[1], BudgetOf(a), page, ans)

\* func(*args) for the function an operation's decorator wrapped
Underlying(op, cur, a, page, ans) ==
    CASE op = "get_card_details" -> get_card_details(cur, a, page, ans)
      [] op = "get_card_combos" -> get_card_combos(cur, a, page, ans)
      [] op = "get_commander_data" -> get_commander_data(cur, a, page, ans)
      [] op = "get_commanders_average_deck" ->
            get_commanders_average_deck(cur, a, page, ans)
      [] op = "get_commander_decks" -> get_commander_decks(cur, a, page, ans)

\* What the service answers to the request the call op(*a) on inst makes:
\* a deck that is its answer, number v, to that request
Answer(op, inst, a, v) == [t |-> "answer", op |-> op, inst |-> inst, args |-> a, v |-> v]

Payload(op, inst, a, v) == JDict([deck |-> Answer(op, inst, a, v)])

Envelope(data) == JDict([pageProps |-> JDict([data |-> data])])

Versions == {1, 2}

DataAnswers(op, inst, a) ==
    { [status |-> 200,
       body |-> IF op = "get_card_details" THEN Payload(op, inst, a, v)
                ELSE Envelope(Payload(op, inst, a, v))] : v \in Versions }
    \cup { [status |-> 404, body |-> JNone] }

\* inst.op(*a), a cached operation, the root answering page and the data
\* endpoint answering ans to the requests the call makes, if it makes them
CachedCall(op, inst, a, page, ans) ==
    LET f == Underlying(op, current_build_id[inst], a, page, ans)
        w == wrapper(caches[cache_of(op)], key_of(inst, a), clock, f)
    IN  /\ caches' = [caches EXCEPT ![cache_of(op)] = w.cache]
        /\ IF w.invoked = 1
           THEN AfterCheck(inst, f.check)
           ELSE UNCHANGED <<current_build_id, root_requests, resolved>>
        /\ last' = [op |-> op, inst |-> inst, args |-> a, now |-> clock,
                    exc |-> w.exc, ret |-> w.ret, invoked |-> w.invoked,
                    raised |-> IF w.invoked = 1 THEN f.exc ELSE NoExc]
        /\ ncalls' = ncalls + 1
        /\ UNCHANGED <<clock, ticks, nameVars, gen,
                   threads, trace>>

\* Time passes
Tick(d) ==
    /\ clock' = clock + d
    /\ ticks' = ticks + 1
    /\ UNCHANGED <<caches, ncalls, clientVars, nameVars, gen,
                   threads, trace>>

MaxTicks == 2

MaxCalls == 3

TickSteps == {1, TTL - 1, TTL}

Opt == <<"O","p","t">>

Fog == <<"F","o","g">>

CacheNames == {Opt, Fog}

CacheInit == NameIdle /\ ClientIdle /\ CacheIdle

CacheNext ==
    \/ \E d \in TickSteps : ticks < MaxTicks /\ Tick(d)
    \/ \E name \in CacheNames :
         \E ans \in DataAnswers("get_card_details", "A", <<name>>) :
            /\ ncalls < MaxCalls
            /\ CachedCall("get_card_details", "A", <<name>>,
                          CHOOSE p \in Pages : TRUE, ans)

SpecCache == CacheInit /\ [][CacheNext]_vars

\* C1: a call with arguments a that finds no entry invokes the underlying
\* function once and stores its result with expiry now + 24h; a call strictly
\* before the expiry of the entry does not invoke it and returns the stored
\* result; a call at or after the expiry invokes it again and overwrites the
\* entry with a new expiry 24h after that call.
C1_Memoizer ==
    [][(ncalls' = ncalls + 1 /\ last'.exc = NoExc) =>
        LET c == caches[cache_of(last'.op)]
            c2 == caches'[cache_of(last'.op)]
            k == key_of(last'.inst, last'.args)
            fresh == [result |-> last'.ret, expiry |-> clock + TTL]
        IN  /\ k \in DOMAIN c2
            /\ \A j \in DOMAIN c : j # k => j \in DOMAIN c2 /\ c2[j] = c[j]
            /\ IF k \notin DOMAIN c
               THEN last'.invoked = 1 /\ c2[k] = fresh
               ELSE IF clock < c[k].expiry
               THEN /\ last'.invoked = 0
                    /\ last'.ret = c[k].result
                    /\ c2[k] = c[k]
               ELSE last'.invoked = 1 /\ c2[k] = fresh]_vars

\* A recomputation at the very second the entry expires, giving a new answer
C1_Witness ==
    /\ ncalls = 2
    /\ clock = TTL
    /\ last.op = "get_card_details"
    /\ last.invoked = 1
    /\ last.ret = Payload("get_card_details", "A", <<Opt>>, 2)
    /\ caches["get_card_details"][<<"A", Opt>>] =
          [result |-> Payload("get_card_details", "A", <<Opt>>, 2),
           expiry |-> TTL + TTL]

\* C12: when the underlying function of a cached call raises, the exception
\* reaches the caller after one invocation and no value is returned, every
\* dict is left as it was (no entry created on a miss, an expired entry keeps
\* its result and expiry, no other key changes), and the next call with the
\* same arguments invokes the underlying function again.
C12_FailureLeavesCache ==
    [][/\ (ncalls' = ncalls + 1 /\ last'.raised # NoExc) =>
            /\ last'.exc = last'.raised
            /\ last'.invoked = 1
            /\ last'.ret = JNone
            /\ caches' = caches
       /\ (/\ ncalls >= 1 /\ last.exc # NoExc
           /\ ncalls' = ncalls + 1
           /\ last'.op = last.op /\ last'.inst = last.inst
           /\ last'.args = last.args) =>
            last'.invoked = 1]_vars

\* A failed recomputation of an expired entry, which keeps its old result and
\* its old expiry
C12_Witness ==
    /\ ncalls = 2
    /\ clock = TTL
    /\ last.op = "get_card_details"
    /\ last.args = <<Opt>>
    /\ last.raised = HTTPError
    /\ last.exc = HTTPError
    /\ last.invoked = 1
    /\ caches["get_card_details"] =
          SetItem(<<>>, <<"A", Opt>>,
                  [result |-> Payload("get_card_details", "A", <<Opt>>, 1),
                   expiry |-> TTL])

-----------------------------------------------------------------------------
(* The five cached operations on two client instances *)

MaxIsoCalls == 2

MaxIsoTicks == 1

IsoArgs(op) ==
    IF op = "get_commanders_average_deck"
    THEN {<<Opt>>, <<Opt, BUDGET>>}
    ELSE {<<Opt>>}

IsoPages ==
    { p \in Pages : p.status = 404 \/ p.buildId = B1 }

IsoAnswers(op, inst, a) ==
    { x \in DataAnswers(op, inst, a) : x.status = 404 \/ x.body # JNone }

IsoInit == NameIdle /\ ClientIdle /\ CacheIdle

IsoNext ==
    \/ ticks < MaxIsoTicks /\ Tick(TTL)
    \/ \E op \in CachedOps, inst \in Instances :
         \E a \in IsoArgs(op), page \in RootAnswersIn(IsoPages, inst) :
            \E ans \in IsoAnswers(op, inst, a) :
               /\ ncalls < MaxIsoCalls
               /\ CachedCall(op, inst, a, page, ans)

SpecIso == IsoInit /\ [][IsoNext]_vars

\* The request a value returned by op was the service's answer to
OriginOf(op, v) ==
    LET x == IF op = "get_commanders_average_deck"
             THEN v.kv["decklist"] ELSE v.kv["deck"]
    IN  [op |-> x.op, inst |-> x.inst, args |-> x.args]

\* C10: a call op(x) on instance A returns only what op computed for A with
\* exactly the arguments x; every entry of an operation's dict was stored by
\* that operation for the instance and arguments of its key; a call to one
\* operation leaves the dicts of the other operations as they were.
C10_NoCrossing ==
    /\ []((last.op \in CachedOps /\ last.exc = NoExc) =>
            OriginOf(last.op, last.ret) =
                [op |-> last.op, inst |-> last.inst, args |-> last.args])
    /\ [](\A op \in CachedOps : \A k \in DOMAIN caches[op] :
            OriginOf(op, caches[op][k].result) =
                [op |-> op, inst |-> Head(k), args |-> Tail(k)])
    /\ [][ncalls' = ncalls + 1 =>
            \A op \in CachedOps \ {last'.op} : caches'[op] = caches[op]]_vars

\* Instance B calls an operation with the arguments instance A has an entry
\* for, and gets its own answer
C10_Witness ==
    /\ ncalls = 2
    /\ last.op = "get_card_combos"
    /\ last.inst = "B"
    /\ last.exc = NoExc
    /\ last.invoked = 1
    /\ DOMAIN caches["get_card_combos"] = {<<"A", Opt>>, <<"B", Opt>>}

-----------------------------------------------------------------------------
(* The facade: _get_nextjs_data, _get_cardlist_from_container,              *)
(* get_commanders_average_deck and get_deck_by_id on the service's answers  *)

DECKPREVIEW == <<"d","e","c","k","p","r","e","v","i","e","w">>

RECURSIVE SetToSeq(_)
SetToSeq(S) ==
    IF S = {} THEN <<>>
    ELSE LET x == CHOOSE y \in S : TRUE IN <<x>> \o SetToSeq(S \ {x})

\* The items a for loop over v visits, as a list, or the exception iter(v)
\* raises
Iter(v) ==
    IF v.t = "raise" THEN v
    ELSE IF v.t = "list" THEN v
    ELSE IF v.t = "dict" THEN JList([i \in DOMAIN SetToSeq(DOMAIN v.kv) |->
                                        JStr(SetToSeq(DOMAIN v.kv)[i])])
    ELSE IF v.t = "str" THEN JList(<<>>)
    ELSE Raise(TypeError)

\* The key a decoded value makes in a dict the client builds
KeyOfValue(v) == IF v.t = "str" THEN v.s ELSE "None"

\* The for loop of _get_cardlist_from_container over the remaining card
\* lists, result being the dict built so far (header -> cardviews)
RECURSIVE CollectCardlists(_, _, _)
CollectCardlists(items, tag, result) ==
    IF items = <<>> THEN JDict(result)
    ELSE LET cl == Head(items)
             card_list == DictGet(cl, "cardviews", JNone)
             header == DictGet(cl, "header", JNone)
             cl_tag == DictGet(cl, "tag", JNone)
         IN  IF card_list.t = "raise" THEN card_list
             ELSE IF tag # ""
             THEN IF cl_tag = JStr(tag)
                  THEN JDict(SetItem(result, KeyOfValue(header), card_list))
                  ELSE CollectCardlists(Tail(items), tag, result)
             ELSE CollectCardlists(Tail(items), tag,
                                   SetItem(result, KeyOfValue(header), card_list))

\* EDHRec._get_cardlist_from_container after get_commander_data has returned
\* card_data; tag "" stands for no tag
cardlist_from_container(card_data, tag) ==
    LET container == DictGet(card_data, "container", EmptyDict)
        json_dict == DictGet(container, "json_dict", EmptyDict)
        card_lists == DictGet(json_dict, "cardlists", JNone)
        items == Iter(card_lists)
    IN  IF items.t = "raise" THEN items
        ELSE CollectCardlists(items.items, tag, <<>>)

\* [cm for cm in commanders if cm is not None]
RECURSIVE NotNone(_)
NotNone(items) ==
    IF items = <<>> THEN <<>>
    ELSE (IF Head(items) = JNone THEN <<>> ELSE <<Head(items)>>)
         \o NotNone(Tail(items))

\* [card["name"] for card in cardviews]
RECURSIVE CardNames(_)
CardNames(items) ==
    IF items = <<>> THEN JList(<<>>)
    ELSE LET n == Subscript(Head(items), "name")
             rest == CardNames(Tail(items))
         IN  IF n.t = "raise" THEN n
             ELSE IF rest.t = "raise" THEN rest
             ELSE JList(<<n>> \o rest.items)

\* {cl["header"]: [card["name"] for card in cl["cardviews"]] for cl in ...}
RECURSIVE NamedLists(_, _)
NamedLists(items, result) ==
    IF items = <<>> THEN JDict(result)
    ELSE LET cl == Head(items)
             header == Subscript(cl, "header")
             views == Iter(Subscript(cl, "cardviews"))
             names == IF views.t = "raise" THEN views ELSE CardNames(views.items)
         IN  IF header.t = "raise" THEN header
             ELSE IF names.t = "raise" THEN names
             ELSE NamedLists(Tail(items),
                             SetItem(result, KeyOfValue(header), names))

\* The simplified view get_deck_by_id builds from data
simplified_deck(data) ==
    LET commanders == Iter(Subscript(data, "commanders"))
        card_lists == Iter(Subscript(Subscript(Subscript(data, "container"),
                                               "json_dict"), "cardlists"))
    IN  IF commanders.t = "raise" THEN commanders
        ELSE IF card_lists.t = "raise" THEN card_lists
        ELSE NamedLists(card_lists.items,
                        [Commander |-> JList(NotNone(commanders.items))])

\* EDHRec.get_deck_by_id
get_deck_by_id(cur, id, simplified_output, page, ans) ==
    LET o == nextjs_fetch(cur, DECKPREVIEW, id, None, page, ans) IN
    IF o.exc # NoExc \/ ~simplified_output THEN o
    ELSE Outcome(o.check, simplified_deck(o.ret))

\* Decoded bodies the service may answer with
Cardlist(header, tag, name) ==
    JDict([header |-> JStr(header), tag |-> JStr(tag),
           cardviews |-> JList(<<JDict([name |-> JStr(name)])>>)])

FullCardlists ==
    JList(<<Cardlist("Creatures", "creatures", "Llanowar Elves"),
            Cardlist("Lands", "lands", "Forest")>>)

DataShapes ==
    { JNone,
      EmptyDict,
      JDict([foo |-> JNum(1)]),
      JDict([deck |-> JList(<<JStr("1 Forest")>>)]),
      JDict([container |-> EmptyDict]),
      JDict([container |-> JDict([json_dict |-> EmptyDict])]),
      JDict([container |-> JDict([json_dict |->
                JDict([cardlists |-> FullCardlists])])]),
      JDict([deck |-> JList(<<JStr("1 Forest")>>),
             commanders |-> JList(<<JStr("Krark, the Thumbless"), JNone>>),
             container |-> JDict([json_dict |->
                JDict([cardlists |-> FullCardlists])])]) }

Bodies ==
    { EmptyDict,
      JList(<<>>),
      JDict([pageProps |-> JNone]),
      JDict([pageProps |-> EmptyDict]),
      JDict([other |-> JNum(1)]) }
    \cup { Envelope(d) : d \in DataShapes }

FacadeAnswers == { [status |-> 200, body |-> b] : b \in Bodies }
                 \cup { [status |-> 404, body |-> JNone] }

Tags == {"", "creatures", "lands", "battles"}

MaxFacadeCalls == 2

\* EDHRec._get_nextjs_data(response)
GetNextjsData ==
    \E response \in Bodies :
        LET v == get_nextjs_data(response) IN
        /\ ncalls < MaxFacadeCalls
        /\ last' = [op |-> "_get_nextjs_data", response |-> response,
                    exc |-> IF v.t = "raise" THEN v.exc ELSE NoExc,
                    ret |-> IF v.t = "raise" THEN JNone ELSE v]
        /\ ncalls' = ncalls + 1
        /\ UNCHANGED <<current_build_id, root_requests, resolved,
                       caches, clock, ticks, nameVars, gen,
                   threads, trace>>

\* The body that was read by a call that made read requests of the data
\* endpoint, for the record of the call
Unread == [t |-> "unread"]

BodyRead(read, ans) ==
    IF read /\ raise_for_status(ans.status) = NoExc THEN ans.body ELSE Unread

\* inst.get_commanders_average_deck(*a)
GetCommandersAverageDeck(inst, a, page, ans) ==
    LET op == "get_commanders_average_deck"
        f == Underlying(op, current_build_id[inst], a, page, ans)
        w == wrapper(caches[cache_of(op)], key_of(inst, a), clock, f)
    IN  /\ ncalls < MaxFacadeCalls
        /\ caches' = [caches EXCEPT ![cache_of(op)] = w.cache]
        /\ IF w.invoked = 1
           THEN AfterCheck(inst, f.check)
           ELSE UNCHANGED <<current_build_id, root_requests, resolved>>
        /\ last' = [op |-> op, inst |-> inst, args |-> a,
                    body |-> BodyRead(w.invoked = 1 /\ f.check.exc = NoExc, ans),
                    exc |-> w.exc, ret |-> w.ret]
        /\ ncalls' = ncalls + 1
        /\ UNCHANGED <<clock, ticks, nameVars, gen,
                   threads, trace>>

\* inst._get_cardlist_from_container(name, tag), as the per-category getters
\* call it
GetCardlistFromContainer(inst, name, tag, page, ans) ==
    LET op == "get_commander_data"
        f == Underlying(op, current_build_id[inst], <<name>>, page, ans)
        w == wrapper(caches[cache_of(op)], key_of(inst, <<name>>), clock, f)
        v == IF w.exc # NoExc THEN Raise(w.exc)
             ELSE cardlist_from_container(w.ret, tag)
    IN  /\ ncalls < MaxFacadeCalls
        /\ caches' = [caches EXCEPT ![cache_of(op)] = w.cache]
        /\ IF w.invoked = 1
           THEN AfterCheck(inst, f.check)
           ELSE UNCHANGED <<current_build_id, root_requests, resolved>>
        /\ last' = [op |-> "_get_cardlist_from_container", inst |-> inst,
                    args |-> <<name, tag>>,
                    body |-> BodyRead(w.invoked = 1 /\ f.check.exc = NoExc, ans),
                    exc |-> IF v.t = "raise" THEN v.exc ELSE NoExc,
                    ret |-> IF v.t = "raise" THEN JNone ELSE v]
        /\ ncalls' = ncalls + 1
        /\ UNCHANGED <<clock, ticks, nameVars, gen,
                   threads, trace>>

\* inst.get_deck_by_id(id, simplified_output)
GetDeckById(inst, id, simplified_output, page, ans) ==
    LET o == get_deck_by_id(current_build_id[inst], id, simplified_output,
                            page, ans)
    IN  /\ ncalls < MaxFacadeCalls
        /\ AfterCheck(inst, o.check)
        /\ last' = [op |-> "get_deck_by_id", inst |-> inst,
                    args |-> <<id, simplified_output>>,
                    body |-> BodyRead(o.check.exc = NoExc, ans),
                    exc |-> o.exc, ret |-> o.ret]
        /\ ncalls' = ncalls + 1
        /\ UNCHANGED <<caches, clock, ticks, nameVars, gen,
                   threads, trace>>

FacadeInit == NameIdle /\ ClientIdle /\ CacheIdle

FacadeNext ==
    \/ GetNextjsData
    \/ \E page \in RootAnswers("A"), ans \in FacadeAnswers :
         \E a \in {<<Opt>>, <<Opt, BUDGET>>} :
            GetCommandersAverageDeck("A", a, page, ans)
    \/ \E page \in RootAnswers("A"), ans \in FacadeAnswers :
         \E tag \in Tags : GetCardlistFromContainer("A", Opt, tag, page, ans)
    \/ \E page \in RootAnswers("A"), ans \in FacadeAnswers :
         \E simplified_output \in BOOLEAN :
            GetDeckById("A", <<"d","1">>, simplified_output, page, ans)

SpecFacade == FacadeInit /\ [][FacadeNext]_vars

\* Whether the nested fields path exist in the decoded value v
RECURSIVE HasPath(_, _)
HasPath(v, path) ==
    \/ path = <<>>
    \/ /\ v.t = "dict"
       /\ Head(path) \in DOMAIN v.kv
       /\ HasPath(v.kv[Head(path)], Tail(path))

\* The nested fields an operation reads from a response
ExpectedPaths(op, args) ==
    CASE op = "get_commanders_average_deck" ->
            {<<"pageProps", "data", "deck">>}
      [] op = "_get_cardlist_from_container" ->
            {<<"pageProps", "data", "container", "json_dict", "cardlists">>}
      [] op = "get_deck_by_id" ->
            IF args[2]
            THEN {<<"pageProps", "data", "commanders">>,
                  <<"pageProps", "data", "container", "json_dict", "cardlists">>}
            ELSE {<<"pageProps", "data">>}

FacadeOps == {"get_commanders_average_deck", "_get_cardlist_from_container",
              "get_deck_by_id"}

\* C7: a facade operation that read a 2xx response lacking one of the nested
\* fields it expects returns to its caller (an absent/None value) and does
\* not raise.
C7_MissingFieldsGiveNone ==
    (/\ last.op \in FacadeOps
     /\ last.body # Unread
     /\ last.body.t = "dict"
     /\ \E path \in ExpectedPaths(last.op, last.args) : ~HasPath(last.body, path))
    => last.exc = NoExc

\* C8: for a decoded JSON object _get_nextjs_data never raises; it returns
\* None without a top-level pageProps, pageProps.data when pageProps holds
\* data, and None when data is missing or pageProps is null or empty.
C8_UnwrapNeverRaises ==
    (last.op = "_get_nextjs_data" /\ last.response.t = "dict") =>
        /\ last.exc = NoExc
        /\ last.ret = IF HasPath(last.response, <<"pageProps", "data">>)
                      THEN last.response.kv["pageProps"].kv["data"]
                      ELSE JNone

-----------------------------------------------------------------------------
(* The paginated listings: _get_top_commanders,                             *)
(* get_top_commanders_by_timeframe and get_top_commanders_by_color          *)

PageSize == 100

\* color_archetypes: (key, archetype) pairs
color_archetypes ==
    {
      <<<<"w">>, <<"m","o","n","o","-","w","h","i","t","e">>>>,
      <<<<"u">>, <<"m","o","n","o","-","b","l","u","e">>>>,
      <<<<"b">>, <<"m","o","n","o","-","b","l","a","c","k">>>>,
      <<<<"r">>, <<"m","o","n","o","-","r","e","d">>>>,
      <<<<"g">>, <<"m","o","n","o","-","g","r","e","e","n">>>>,
      <<<<"c">>, <<"c","o","l","o","r","l","e","s","s">>>>,
      <<<<"u","w">>, <<"a","z","o","r","i","u","s">>>>,
      <<<<"b","u">>, <<"d","i","m","i","r">>>>,
      <<<<"b","r">>, <<"r","a","k","d","o","s">>>>,
      <<<<"g","r">>, <<"g","r","u","u","l">>>>,
      <<<<"g","w">>, <<"s","e","l","e","s","n","y","a">>>>,
      <<<<"b","w">>, <<"o","r","z","h","o","v">>>>,
      <<<<"r","u">>, <<"i","z","z","e","t">>>>,
      <<<<"b","g">>, <<"g","o","l","g","a","r","i">>>>,
      <<<<"r","w">>, <<"b","o","r","o","s">>>>,
      <<<<"g","u">>, <<"s","i","m","i","c">>>>,
      <<<<"b","u","w">>, <<"e","s","p","e","r">>>>,
      <<<<"b","r","u">>, <<"g","r","i","x","i","s">>>>,
      <<<<"b","g","r">>, <<"j","u","n","d">>>>,
      <<<<"g","r","w">>, <<"n","a","y","a">>>>,
      <<<<"g","u","w">>, <<"b","a","n","t">>>>,
      <<<<"b","g","w">>, <<"a","b","z","a","n">>>>,
      <<<<"r","u","w">>, <<"j","e","s","k","a","i">>>>,
      <<<<"b","g","u">>, <<"s","u","l","t","a","i">>>>,
      <<<<"b","r","w">>, <<"m","a","r","d","u">>>>,
      <<<<"g","r","u">>, <<"t","e","m","u","r">>>>,
      <<<<"b","r","u","w">>, <<"y","o","r","e","-","t","i","l","l","e","r">>>>,
      <<<<"b","g","r","u">>, <<"g","l","i","n","t","-","e","y","e">>>>,
      <<<<"b","g","r","w">>, <<"d","u","n","e","-","b","r","o","o","d">>>>,
      <<<<"g","r","u","w">>, <<"i","n","k","-","t","r","e","a","d","e","r">>>>,
      <<<<"b","g","u","w">>, <<"w","i","t","c","h","-","m","a","w">>>>,
      <<<<"b","g","r","u","w">>, <<"f","i","v","e","-","c","o","l","o","r">>>>
    }

ArchetypeKeys == { e[1] : e \in color_archetypes }

\* ord(c) of a lower-case letter, up to a constant
Ord(c) == CHOOSE i \in DOMAIN LowerCase : LowerCase[i] = c

\* sorted(colors), by insertion
RECURSIVE Insert(_, _)
Insert(c, sorted) ==
    IF sorted = <<>> THEN <<c>>
    ELSE IF Ord(c) <= Ord(Head(sorted)) THEN <<c>> \o sorted
    ELSE <<Head(sorted)>> \o Insert(c, Tail(sorted))

RECURSIVE Sorted(_)
Sorted(colors) ==
    IF colors = <<>> THEN <<>> ELSE Insert(Head(colors), Sorted(Tail(colors)))

\* "".join(colors) without sorting
color_string_unsorted(colors) == colors

\* "".join(sorted(colors)) for a list of one-letter strings
color_string(colors) == Sorted(colors)

\* The query get_top_commanders_by_color passes on, or the AssertionError
color_query(colors) ==
    LET color_sting == color_string(colors) IN
    IF color_sting \in ArchetypeKeys
    THEN (CHOOSE e \in color_archetypes : e[1] = color_sting)[2]
    ELSE AssertionError

WEEK == <<"w","e","e","k">>

MONTH == <<"m","o","n","t","h">>

YEAR == <<"y","e","a","r">>

\* The query get_top_commanders_by_timeframe passes on, or the AssertionError
timeframe_query(time_frame) ==
    IF time_frame \in {WEEK, MONTH, <<>>} THEN time_frame ELSE AssertionError

\* str.find: the lowest index (from 0) at which sub occurs in str, or -1
Find(str, sub) ==
    LET at == { i \in 0..(Len(str) - Len(sub)) :
                    SubSeq(str, i + 1, i + Len(sub)) = sub }
    IN  IF at = {} THEN -1 ELSE CHOOSE i \in at : \A j \in at : i <= j

\* str[:index]
Prefix(str, index) ==
    IF index >= 0 THEN SubSeq(str, 1, index)
    ELSE SubSeq(str, 1, Len(str) + index)

\* str.replace(old, new) for a non-empty string old
RECURSIVE ReplaceStr(_, _, _)
ReplaceStr(str, old, new) ==
    IF Len(str) < Len(old) THEN str
    ELSE IF SubSeq(str, 1, Len(old)) = old
    THEN new \o ReplaceStr(SubSeq(str, Len(old) + 1, Len(str)), old, new)
    ELSE <<Head(str)>> \o ReplaceStr(Tail(str), old, new)

DigitChars == <<"0","1","2","3","4","5","6","7","8","9">>

RECURSIVE Digits(_)
Digits(k) ==
    IF k < 10 THEN <<DigitChars[k + 1]>>
    ELSE Digits(k \div 10) \o <<DigitChars[(k % 10) + 1]>>

\* The service's listing for a query: blocks of PageSize names, block k
\* holding the names k * PageSize ... and the "more" pointer to block k + 1
ListedName(query, k, j) == [query |-> query, rank |-> k * PageSize + j]

MorePointer(query, k) ==
    COMMANDERS \o <<"/">> \o query \o <<"-">> \o Digits(k + 1) \o DotJson

\* The URI the service serves block k of the listing at
BlockUri(build_id, query, k) ==
    IF k = 0
    THEN base_url \o NextData \o build_id \o <<"/">> \o COMMANDERS
         \o (IF query = <<>> THEN <<>> ELSE <<"/">> \o query) \o DotJson
    ELSE base_url \o NextData \o build_id \o <<"/">> \o MorePointer(query, k - 1)

\* The block the service serves at uri, or -1 (not found)
BlockAt(uri, build_id, query, max_block) ==
    IF \E k \in 0..max_block : uri = BlockUri(build_id, query, k)
    THEN CHOOSE k \in 0..max_block : uri = BlockUri(build_id, query, k)
    ELSE -1

\* A further block is fetched at every index that starts a block
needs_fetch_every_block(i) == i % PageSize = 0

\* (local_index == 0) and (global_index != 0)
needs_fetch(i) == i % PageSize = 0 /\ i \div PageSize # 0

\* The query the entry point of the generator passes to _get_top_commanders,
\* or the AssertionError of its validation
QueryOf(g) ==
    IF g.kind = "color" THEN color_query(g.arg) ELSE timeframe_query(g.arg)

\* The first next() of the generator: the validation of the entry point, then
\* _get_top_commanders up to its first yield
FirstNext(inst, page, status) ==
    LET query == QueryOf(gen)
        c == check_build_id(current_build_id[inst], page)
        built == build_uri(c.build_id, COMMANDERS, query, None, None, None).uri
        uri == IF Len(query) = 0
               THEN ReplaceStr(built, COMMANDERS \o <<"/">> \o DotJson,
                               COMMANDERS \o DotJson)
               ELSE built
        first == BlockAt(uri, c.build_id, query, gen.n \div PageSize + 1)
        \* the test of the loop at i = 0
        more_uri == IF needs_fetch(0)
                    THEN Prefix(uri, Find(uri, <<"c","o","m","m","a","n","d","e","r">>))
                         \o MorePointer(query, first)
                    ELSE uri
        block == IF needs_fetch(0)
                 THEN BlockAt(more_uri, c.build_id, query, gen.n \div PageSize + 1)
                 ELSE first
        fetches == IF needs_fetch(0) THEN 2 ELSE 1
    IN  /\ gen.pc = "start"
        /\ IF query = AssertionError
           THEN /\ gen' = [gen EXCEPT !.pc = "failed", !.exc = AssertionError]
                /\ UNCHANGED <<current_build_id, root_requests, resolved>>
           ELSE /\ AfterCheck(inst, c)
                /\ gen' =
                     IF c.exc # NoExc
                     THEN [gen EXCEPT !.pc = "failed", !.exc = c.exc,
                                      !.query = query]
                     ELSE IF raise_for_status(status) # NoExc \/ first = -1
                     THEN [gen EXCEPT !.pc = "failed", !.exc = HTTPError,
                                      !.query = query, !.uri = uri,
                                      !.fetches = 1]
                     ELSE IF gen.n <= 0
                     THEN [gen EXCEPT !.pc = "done", !.query = query,
                                      !.uri = uri, !.cardlist = first,
                                      !.fetches = 1]
                     ELSE IF block = -1
                     THEN [gen EXCEPT !.pc = "failed", !.exc = HTTPError,
                                      !.query = query, !.uri = more_uri,
                                      !.fetches = fetches, !.i = 0]
                     ELSE [gen EXCEPT !.pc = "running", !.query = query,
                                      !.uri = more_uri, !.cardlist = block,
                                      !.fetches = fetches, !.i = 0,
                                      !.count = 1,
                                      !.name = ListedName(query, block, 0)]
        /\ UNCHANGED <<last, cacheVars, nameVars>>

\* A later next() of the generator: from the yield to the next one
LaterNext(inst, status) ==
    LET i == gen.i + 1
        local_index == i % PageSize
        replace_index == Find(gen.uri, <<"c","o","m","m","a","n","d","e","r">>)
        uri == IF needs_fetch(i)
               THEN Prefix(gen.uri, replace_index)
                    \o MorePointer(gen.query, gen.cardlist)
               ELSE gen.uri
        block == IF needs_fetch(i)
                 THEN BlockAt(uri, current_build_id[inst], gen.query,
                              gen.n \div PageSize + 1)
                 ELSE gen.cardlist
    IN  /\ gen.pc = "running"
        /\ gen' =
             IF i >= gen.n THEN [gen EXCEPT !.pc = "done"]
             ELSE IF needs_fetch(i) /\ (raise_for_status(status) # NoExc \/ block = -1)
             THEN [gen EXCEPT !.pc = "failed", !.exc = HTTPError, !.i = i,
                              !.uri = uri, !.fetches = @ + 1]
             ELSE [gen EXCEPT !.i = i, !.uri = uri, !.cardlist = block,
                              !.fetches = IF needs_fetch(i) THEN @ + 1 ELSE @,
                              !.count = @ + 1,
                              !.name = ListedName(gen.query, block, local_index)]
        /\ UNCHANGED <<clientVars, cacheVars, nameVars>>

\* A generator just created by get_top_commanders_by_timeframe or
\* get_top_commanders_by_color: no code of it has run
NewGenerator(kind, arg, n) ==
    [kind |-> kind, arg |-> arg, n |-> n, pc |-> "start", exc |-> NoExc,
     query |-> None, uri |-> <<>>, cardlist |-> -1, i |-> -1,
     count |-> 0, fetches |-> 0, name |-> None]

ListPages == { p \in Pages : p.status = 404 \/ p.buildId = B1 \/ ~p.script }

Statuses == {200, 404}

\* The answers of the service to the requests of a first next(): the root
\* page and the status of the listing (nothing is requested, and nothing is
\* answered, when the validation fails)
FirstAnswers ==
    IF gen.pc = "start" /\ QueryOf(gen) # AssertionError
    THEN ListPages \X Statuses
    ELSE {<<CHOOSE p \in ListPages : TRUE, 200>>}

\* The status of the listing fetch of a later next(), if it makes one
LaterAnswers ==
    IF gen.pc = "running" /\ needs_fetch(gen.i + 1) THEN Statuses ELSE {200}

MaxN == 201

ListInit ==
    /\ NameIdle
    /\ CacheIdle
    /\ current_build_id = [i \in Instances |-> None]
    /\ root_requests = [i \in Instances |-> 0]
    /\ resolved = [i \in Instances |-> FALSE]
    /\ last = NoCall
    /\ \E time_frame \in {<<>>, WEEK, YEAR}, n \in 0..MaxN :
          gen = NewGenerator("timeframe", time_frame, n)

ListNext ==
    \/ \E answer \in FirstAnswers : FirstNext("A", answer[1], answer[2])
    \/ \E status \in LaterAnswers : LaterNext("A", status)

SpecList == ListInit /\ [][ListNext]_vars

\* C5: iterating a top-commanders listing with n >= 1 yields the first n
\* names of the listing in order and then stops; the first fetch comes before
\* the first name and one more fetch is made exactly at each index that is a
\* multiple of 100, so that after k names 1 + (k - 1) div 100 listing
\* fetches have been made, and 1 + (n - 1) div 100 after all n.
C5_Pagination ==
    (gen.pc \in {"start", "running", "done"} /\ gen.n >= 1) =>
        /\ gen.pc = "start" => gen.count = 0 /\ gen.fetches = 0
        /\ gen.pc = "running" =>
              /\ gen.count >= 1 /\ gen.count <= gen.n
              /\ gen.name = [query |-> gen.query, rank |-> gen.count - 1]
              /\ gen.fetches = 1 + (gen.count - 1) \div 100
        /\ gen.pc = "done" =>
              /\ gen.count = gen.n
              /\ gen.name = [query |-> gen.query, rank |-> gen.n - 1]
              /\ gen.fetches = 1 + (gen.n - 1) \div 100

C5_Witness ==
    /\ gen.pc = "done"
    /\ gen.n = 150
    /\ gen.count = 150
    /\ gen.fetches = 2

-----------------------------------------------------------------------------
(* get_top_commanders_by_color on every list of colour letters *)

MaxColors == 5

ColorLetters == {"w", "u", "b", "r", "g", "c", "x"}

ColorLists == UNION { [1..k -> ColorLetters] : k \in 0..MaxColors }

ColorInit ==
    /\ NameIdle
    /\ CacheIdle
    /\ current_build_id = [i \in Instances |-> None]
    /\ root_requests = [i \in Instances |-> 0]
    /\ resolved = [i \in Instances |-> FALSE]
    /\ last = NoCall
    /\ \E colors \in ColorLists, n \in {2} :
          gen = NewGenerator("color", colors, n)

ColorNext ==
    \/ \E answer \in FirstAnswers : FirstNext("A", answer[1], answer[2])
    \/ \E status \in LaterAnswers : LaterNext("A", status)

SpecColor == ColorInit /\ [][ColorNext]_vars

\* One of the 32 colour combinations: distinct letters that are a non-empty
\* subset of white, blue, black, red and green, or colourless alone
IsCombination(colors) ==
    /\ \A i, j \in DOMAIN colors : colors[i] = colors[j] => i = j
    /\ \/ Range(colors) = {"c"}
       \/ Range(colors) # {} /\ Range(colors) \subseteq {"w", "u", "b", "r", "g"}

\* The same letters in every order
Reorderings(colors) ==
    { p \in [DOMAIN colors -> Range(colors)] : Range(p) = Range(colors) }

Orzhov == <<"o","r","z","h","o","v">>

\* C6: each of the 32 colour combinations resolves to the same archetype in
\* whatever order its letters are given, and any other input fails with the
\* validation error before any request, the build-id request included.
C6_ColorValidation ==
    (gen.pc \in {"running", "done", "failed"} /\ gen.kind = "color") =>
        IF IsCombination(gen.arg)
        THEN /\ gen.exc # AssertionError
             /\ gen.query # None
             /\ \A p \in Reorderings(gen.arg) : color_query(p) = gen.query
             /\ (Range(gen.arg) = {"b", "w"} => gen.query = Orzhov)
        ELSE /\ gen.pc = "failed"
             /\ gen.exc = AssertionError
             /\ gen.fetches = 0
             /\ root_requests = [i \in Instances |-> 0]

C6_Witness ==
    /\ gen.pc = "running"
    /\ gen.kind = "color"
    /\ gen.arg = <<"w", "b">>
    /\ gen.query = Orzhov


-----------------------------------------------------------------------------
(* wrapper run by two threads on one dict, statement by statement *)

\* The cached operation, and the key, both threads call with
RaceOp == "get_card_details"

RaceKey == key_of("A", <<Opt>>)

\* The entry is taken as expired whatever the time
expired_always(now, entry) == TRUE

\* now >= wrapped_cache[args].get("expiry")
expired(now, entry) == now >= entry.expiry

\* An event of the call number n of thread t
Event(t, ev, ok) ==
    [thread |-> t, n |-> threads[t].n, ev |-> ev, now |-> threads[t].now,
     ok |-> ok]

MaxThreadCalls == 1

MaxRaceTicks == 1

\* A thread enters wrapper: now = datetime.utcnow()
ThreadCall(t) ==
    /\ threads[t].pc \in {"idle", "done", "raised"}
    /\ threads[t].n < MaxThreadCalls
    /\ threads' = [threads EXCEPT ![t] =
                     [pc |-> "check", n |-> @.n + 1, now |-> clock,
                      result |-> None, ret |-> None, exc |-> NoExc]]
    /\ UNCHANGED <<caches, clock, ticks, ncalls, trace, clientVars,
                   nameVars, gen>>

\* if args in wrapped_cache
ThreadCheck(t) ==
    /\ threads[t].pc = "check"
    /\ threads' = [threads EXCEPT ![t].pc =
                     IF RaceKey \in DOMAIN caches[cache_of(RaceOp)]
                     THEN "expiry" ELSE "miss_call"]
    /\ trace' = Append(trace, Event(t, "check", TRUE))
    /\ UNCHANGED <<caches, clock, ticks, ncalls, clientVars, nameVars, gen>>

\* if now >= wrapped_cache[args].get("expiry")
ThreadExpiry(t) ==
    /\ threads[t].pc = "expiry"
    /\ threads' = [threads EXCEPT ![t].pc =
                     IF expired(threads[t].now,
                                caches[cache_of(RaceOp)][RaceKey])
                     THEN "hit_call" ELSE "return"]
    /\ UNCHANGED <<caches, clock, ticks, ncalls, trace, clientVars,
                   nameVars, gen>>

\* result = func(*args), the service answering ans
ThreadFunc(t, ans) ==
    LET f == Underlying(RaceOp, current_build_id["A"], <<Opt>>,
                        CHOOSE p \in Pages : TRUE, ans)
    IN  /\ threads[t].pc \in {"hit_call", "miss_call"}
        /\ threads' = [threads EXCEPT ![t] =
                         IF f.exc # NoExc
                         THEN [@ EXCEPT !.pc = "raised", !.exc = f.exc]
                         ELSE [@ EXCEPT !.result = f.ret,
                                        !.pc = IF threads[t].pc = "hit_call"
                                               THEN "hit_write"
                                               ELSE "miss_write"]]
        /\ trace' = Append(trace, Event(t, "call", f.exc = NoExc))
        /\ UNCHANGED <<caches, clock, ticks, ncalls, clientVars, nameVars,
                       gen>>

\* expiry = now + timedelta(seconds=86400); wrapped_cache[args] = {...}; and
\* on the miss branch, return result
ThreadWrite(t) ==
    /\ threads[t].pc \in {"hit_write", "miss_write"}
    /\ caches' = [caches EXCEPT ![cache_of(RaceOp)] =
                    SetItem(@, RaceKey,
                            [result |-> threads[t].result,
                             expiry |-> threads[t].now + TTL])]
    /\ threads' = [threads EXCEPT ![t] =
                     IF @.pc = "hit_write"
                     THEN [@ EXCEPT !.pc = "return"]
                     ELSE [@ EXCEPT !.pc = "done", !.ret = threads[t].result]]
    /\ trace' = Append(trace, Event(t, "write", TRUE))
    /\ UNCHANGED <<clock, ticks, ncalls, clientVars, nameVars, gen>>

\* return wrapped_cache[args].get("result")
ThreadReturn(t) ==
    /\ threads[t].pc = "return"
    /\ threads' = [threads EXCEPT ![t] =
                     [@ EXCEPT !.pc = "done",
                               !.ret = caches[cache_of(RaceOp)][RaceKey].result]]
    /\ UNCHANGED <<caches, clock, ticks, ncalls, trace, clientVars,
                   nameVars, gen>>

RaceInit == NameIdle /\ ClientIdle /\ CacheIdle

RaceNext ==
    \/ \E d \in TickSteps : ticks < MaxRaceTicks /\ Tick(d)
    \/ \E t \in Threads : ThreadCall(t)
    \/ \E t \in Threads : ThreadCheck(t)
    \/ \E t \in Threads : ThreadExpiry(t)
    \/ \E t \in Threads :
         \E ans \in DataAnswers(RaceOp, "A", <<Opt>>) : ThreadFunc(t, ans)
    \/ \E t \in Threads : ThreadWrite(t)
    \/ \E t \in Threads : ThreadReturn(t)

SpecRace == RaceInit /\ [][RaceNext]_vars

\* The calls that have made their membership check
CallsMade == { <<trace[i].thread, trace[i].n>> : i \in DOMAIN trace }

\* The position in the trace of an event of a call, or 0
At(c, ev) ==
    LET at == { i \in DOMAIN trace :
                  <<trace[i].thread, trace[i].n>> = c /\ trace[i].ev = ev }
    IN  IF at = {} THEN 0 ELSE CHOOSE i \in at : TRUE

\* The position at which a call is through with the entry: its write, or the
\* failure of its underlying call; a call still between its check and its
\* write is not through
EndAt(c) ==
    IF At(c, "write") # 0 THEN At(c, "write")
    ELSE IF At(c, "call") # 0 /\ ~trace[At(c, "call")].ok THEN At(c, "call")
    ELSE IF threads[c[1]].n = c[2]
            /\ threads[c[1]].pc \in {"expiry", "hit_call", "miss_call",
                                     "hit_write", "miss_write"}
    THEN Len(trace) + 1
    ELSE At(c, "check")

\* c2 made its membership check while c1 was between its check and its write
Overlapped(c1, c2) ==
    /\ c1 # c2
    /\ At(c1, "check") < At(c2, "check")
    /\ At(c2, "check") < EndAt(c1)

\* Two invocations of the underlying function, the first one successful, by
\* callers less than a TTL apart
TwiceInWindow ==
    \E i, j \in DOMAIN trace :
        /\ i < j
        /\ trace[i].ev = "call" /\ trace[i].ok
        /\ trace[j].ev = "call"
        /\ trace[j].now - trace[i].now < TTL

\* C11: the underlying function is invoked twice within one TTL window only
\* when two callers were inside wrapper together (one made its membership
\* check between the check and the write of the other); callers that follow
\* one another invoke it once per window.  The witness is the interleaving in
\* which it is invoked twice and the entry of one caller is overwritten by
\* the other's.
C11_RaceNeedsOverlap ==
    TwiceInWindow => \E c1, c2 \in CallsMade : Overlapped(c1, c2)

C11_Witness ==
    /\ threads["t1"].pc = "done" /\ threads["t2"].pc = "done"
    /\ threads["t1"].now = threads["t2"].now
    /\ TwiceInWindow
    /\ At(<<"t1", 1>>, "write") # 0
    /\ At(<<"t1", 1>>, "write") < At(<<"t2", 1>>, "write")
    /\ threads["t1"].ret = Payload(RaceOp, "A", <<Opt>>, 1)
    /\ threads["t2"].ret = Payload(RaceOp, "A", <<Opt>>, 2)
    /\ caches[cache_of(RaceOp)][RaceKey].result = threads["t2"].ret

=============================================================================
